---------------------------- MODULE Spec2Model ----------------------------
(***************************************************************************)
(* QuantCLI: the `indicator` command (SMA, EMA, RSI, MACD over the Close   *)
(* column of a price table), the `backtest` command (the ma_crossover      *)
(* strategy run bar by bar by the backtesting engine) and the summary      *)
(* record the backtest writes.                                             *)
(*                                                                         *)
(* Numbers are exact extended rationals <<n, d>>: d > 0 is the fraction    *)
(* n/d in lowest terms, <<0, 0>> is NaN, <<1, 0>> is +inf and <<-1, 0>> is *)
(* -inf, with the arithmetic of floating point for the special values.     *)
(* Rounding is not modelled.                                               *)
(***************************************************************************)
EXTENDS Integers, Sequences, FiniteSets

VARIABLES
    \* ---- the `indicator` command
    indicator_type,   \* --type, upper-cased
    period,           \* --period
    df,               \* the table read from --data: rows in date order
    output,           \* the table written to --output
    written,          \* whether --output was written
    exit_code,        \* "running", "ok", "ValueError"
    \* ---- the `backtest` command (cerebro.run over the data feed)
    bar,              \* the bar being processed, 1-based (0: before the run)
    open,             \* Open of the current bar
    close,            \* Close of the current bar
    short_ma,         \* SMA(short_period) of the current bar, NaN in warm-up
    long_ma,          \* SMA(long_period) of the current bar, NaN in warm-up
    nzd,              \* NonZeroDifference line of the current bar
    diffs,            \* short_ma - long_ma of every bar that had both
    crossover,        \* CrossOver line of the current bar, NaN in warm-up
    cash,             \* broker cash
    position,         \* broker position: [size, price]
    order,            \* the order submitted by next() and not yet processed
    notified,         \* what the broker did with the pending order on this bar
    value,            \* broker value as of the current bar
    issued,           \* orders issued by next(), oldest first
    executed,         \* orders completed by the broker, oldest first
    done,             \* cerebro.run() has returned
    \* ---- the summary record
    sharpe,           \* strat.analyzers.sharpe.get_analysis()
    drawdown,         \* strat.analyzers.drawdown.get_analysis()
    result_summary,   \* the dict built from the two analyses
    results_json,     \* the content of <symbol>_backtest_results.json
    saved             \* whether the file was written

indicatorVars == <<indicator_type, period, df, output, written, exit_code>>
backtestVars == <<bar, open, close, short_ma, long_ma, nzd, diffs, crossover,
                  cash, position, order, notified, value, issued, executed,
                  done>>
summaryVars == <<sharpe, drawdown, result_summary, results_json, saved>>
vars == <<indicatorVars, backtestVars, summaryVars>>

---------------------------------------------------------------------------
\* Bounds of the model.
MaxLen == 3          \* rows of the input table (SMA, EMA, RSI)
MaxMacdLen == 2      \* rows of the input table (MACD)
MaxClose == 3        \* closes are 1..MaxClose
MaxPeriod == 4       \* --period is -1..MaxPeriod
MaxLive == 6         \* bars of the data feed after the strategy's warm-up

---------------------------------------------------------------------------
\* Extended rational arithmetic.

NaN == <<0, 0>>
Inf == <<1, 0>>
NegInf == <<-1, 0>>

Abs(a) == IF a < 0 THEN -a ELSE a

RECURSIVE Gcd(_, _)
Gcd(a, b) == IF b = 0 THEN a ELSE Gcd(b, a % b)

\* n/d for d # 0, in lowest terms with a positive denominator.
Q(n, d) ==
    LET g == Gcd(Abs(n), Abs(d))
        s == IF d < 0 THEN -1 ELSE 1
    IN  <<s * (n \div g), s * (d \div g)>>

Num(n) == <<n, 1>>

IsNaN(x) == x = NaN
IsInf(x) == x[2] = 0 /\ x[1] # 0
Sign(x) == IF x[1] > 0 THEN 1 ELSE IF x[1] < 0 THEN -1 ELSE 0

QNeg(x) == <<-x[1], x[2]>>

QAdd(x, y) ==
    IF IsNaN(x) \/ IsNaN(y) THEN NaN
    ELSE IF IsInf(x) THEN (IF IsInf(y) /\ y # x THEN NaN ELSE x)
    ELSE IF IsInf(y) THEN y
    ELSE LET g == Gcd(x[2], y[2])
             l == (x[2] \div g) * y[2]
         IN  Q(x[1] * (l \div x[2]) + y[1] * (l \div y[2]), l)

QSub(x, y) == QAdd(x, QNeg(y))

QMul(x, y) ==
    IF IsNaN(x) \/ IsNaN(y) THEN NaN
    ELSE IF IsInf(x) \/ IsInf(y)
         THEN (IF Sign(x) * Sign(y) = 0 THEN NaN ELSE <<Sign(x) * Sign(y), 0>>)
    ELSE LET a == Q(x[1], y[2])
             b == Q(y[1], x[2])
         IN  Q(a[1] * b[1], a[2] * b[2])

\* Floating-point division: x/0 is +-inf for x # 0 and NaN for x = 0; no fault.
QDiv(x, y) ==
    IF IsNaN(x) \/ IsNaN(y) THEN NaN
    ELSE IF IsInf(y) THEN (IF IsInf(x) THEN NaN ELSE Num(0))
    ELSE IF y[1] = 0
         THEN (IF Sign(x) = 0 THEN NaN ELSE <<Sign(x), 0>>)
    ELSE IF IsInf(x) THEN <<Sign(x) * Sign(y), 0>>
    ELSE QMul(x, Q(y[2], y[1]))

\* x > y and x < y of floating point: false when either side is NaN.
QGt(x, y) ==
    /\ ~IsNaN(x) /\ ~IsNaN(y)
    /\ IF IsInf(x) \/ IsInf(y)
       THEN x # y /\ (x = Inf \/ y = NegInf)
       ELSE x[1] * y[2] > y[1] * x[2]

QLt(x, y) == QGt(y, x)

---------------------------------------------------------------------------
\* The `indicator` command: the pandas operations it applies to df['Close'].

RECURSIVE QSum(_)
QSum(s) == IF s = <<>> THEN Num(0) ELSE QAdd(s[1], QSum(Tail(s)))

Column(t, c) == [i \in 1..Len(t) |-> t[i][c]]

\* RollingMean with min_periods = 1: the mean of a partial window is a value.
RollingMeanPartial(s, window) ==
    [i \in 1..Len(s) |->
        IF window < 1 THEN NaN
        ELSE LET a == IF i < window THEN 1 ELSE i - window + 1
             IN  QDiv(QSum(SubSeq(s, a, i)), Num(i - a + 1))]

\* Series.rolling(window).mean() with min_periods = window: the mean of the
\* last `window` values, NaN while fewer than `window` values were seen, when
\* the window holds a NaN, and for an empty window.
RollingMean(s, window) ==
    [i \in 1..Len(s) |->
        IF window < 1 \/ i < window THEN NaN
        ELSE QDiv(QSum(SubSeq(s, i - window + 1, i)), Num(window))]

\* Series.diff(): NaN on the first row.
Diff(s) == [i \in 1..Len(s) |-> IF i = 1 THEN NaN ELSE QSub(s[i], s[i - 1])]

\* delta.where(delta > 0, 0) and delta.where(delta < 0, 0): a NaN compares
\* false and is replaced by 0.
WherePositive(s) ==
    [i \in 1..Len(s) |-> IF QGt(s[i], Num(0)) THEN s[i] ELSE Num(0)]

WhereNegative(s) ==
    [i \in 1..Len(s) |-> IF QLt(s[i], Num(0)) THEN s[i] ELSE Num(0)]

\* Alpha with the span taken for the centre of mass: alpha = 1/(1 + span).
AlphaOfCom(span) == QDiv(Num(1), QAdd(Num(1), Num(span)))

\* alpha of ewm(span=...): com = (span - 1)/2, alpha = 1/(1 + com).
Alpha(span) == QDiv(Num(1), QAdd(Num(1), Q(span - 1, 2)))

\* Series.ewm(span, adjust=False).mean(), row i onwards, as the library's loop
\* computes it: `weighted` is the running average, old_wt the weight of the
\* past (reset to 1 after every observation when adjust is False).
RECURSIVE EwmFrom(_, _, _, _, _)
EwmFrom(s, i, weighted, old_wt, alpha) ==
    IF i > Len(s) THEN <<>>
    ELSE LET cur == s[i]
             wt == QMul(old_wt, QSub(Num(1), alpha))
             avg == IF IsNaN(weighted) THEN cur
                    ELSE IF IsNaN(cur) \/ weighted = cur THEN weighted
                    ELSE QDiv(QAdd(QMul(wt, weighted), QMul(alpha, cur)),
                              QAdd(wt, alpha))
             nwt == IF IsNaN(weighted) THEN old_wt
                    ELSE IF IsNaN(cur) THEN wt
                    ELSE Num(1)
         IN  <<avg>> \o EwmFrom(s, i + 1, avg, nwt, alpha)

Ewm(s, span) ==
    IF s = <<>> THEN <<>>
    ELSE <<s[1]>> \o EwmFrom(s, 2, s[1], Num(1), Alpha(span))

\* Rsi without the final subtraction from 100.
RsiComplement(s, window) ==
    LET delta == Diff(s)
        gain == RollingMean(WherePositive(delta), window)
        loss == RollingMean([i \in 1..Len(s) |-> QNeg(WhereNegative(delta)[i])],
                            window)
    IN  [i \in 1..Len(s) |->
            QDiv(Num(100), QAdd(Num(1), QDiv(gain[i], loss[i])))]

\* rs = gain / loss; 100 - (100 / (1 + rs)), row by row.
Rsi(s, window) ==
    LET delta == Diff(s)
        gain == RollingMean(WherePositive(delta), window)
        loss == RollingMean([i \in 1..Len(s) |-> QNeg(WhereNegative(delta)[i])],
                            window)
    IN  [i \in 1..Len(s) |->
            LET rs == QDiv(gain[i], loss[i])
            IN  QSub(Num(100), QDiv(Num(100), QAdd(Num(1), rs)))]

\* df[name] = values: the table with one more column.
WithColumn(t, name, values) ==
    [i \in 1..Len(t) |->
        [c \in DOMAIN t[i] \cup {name} |->
            IF c = name THEN values[i] ELSE t[i][c]]]

\* df.dropna(): the rows holding no NaN in any column (Date is the index).
DropNa(t) ==
    LET Keep(r) == \A c \in DOMAIN r \ {"Date"} : ~IsNaN(r[c])
    IN  SelectSeq(t, Keep)

\* The period the library refuses when the window is built (ValueError):
\* rolling() needs window >= 0, ewm() needs span >= 1.
Refused(type, p) ==
    \/ type \in {"SMA", "RSI"} /\ p < 0
    \/ type = "EMA" /\ p < 1

\* The table after the indicator's columns were added.
Computed(type, t, p) ==
    LET c == Column(t, "Close")
    IN  CASE type = "SMA" -> WithColumn(t, "SMA", RollingMean(c, p))
          [] type = "EMA" -> WithColumn(t, "EMA", Ewm(c, p))
          [] type = "RSI" -> WithColumn(t, "RSI", Rsi(c, p))
          [] type = "MACD" ->
                LET macd == [i \in 1..Len(c) |->
                                QSub(Ewm(c, 12)[i], Ewm(c, 26)[i])]
                IN  WithColumn(WithColumn(t, "MACD", macd),
                               "Signal", Ewm(macd, 9))

Types == {"SMA", "EMA", "RSI", "MACD"}

\* A table read from --data: rows in date order, Close a positive number, and
\* one further column (any column besides Close) whose cells may be empty.
Tables(n) ==
    {[i \in 1..n |-> [Date |-> i, Close |-> Num(cl[i]), Other |-> ot[i]]] :
        cl \in [1..n -> 1..MaxClose], ot \in [1..n -> {NaN, Num(7)}]}

IndicatorIdle ==
    /\ indicator_type = "none" /\ period = 0 /\ df = <<>>
    /\ output = <<>> /\ written = FALSE /\ exit_code = "idle"

BacktestIdle ==
    /\ bar = 0 /\ open = 0 /\ close = 0
    /\ short_ma = NaN /\ long_ma = NaN /\ nzd = NaN /\ crossover = NaN
    /\ diffs = <<>>
    /\ cash = 0 /\ position = [size |-> 0, price |-> 0]
    /\ order = [size |-> 0, created |-> 0] /\ notified = "none" /\ value = 0
    /\ issued = <<>> /\ executed = <<>> /\ done = TRUE

SummaryIdle ==
    /\ sharpe = <<>> /\ drawdown = <<>> /\ result_summary = <<>>
    /\ results_json = <<>> /\ saved = FALSE

\* The state when `indicator` starts: the options parsed and the table read.
IndicatorInit ==
    /\ indicator_type \in Types
    /\ period \in -1..MaxPeriod
    /\ \E n \in 0..(IF indicator_type = "MACD" THEN MaxMacdLen ELSE MaxLen) :
            df \in Tables(n)
    /\ output = <<>> /\ written = FALSE /\ exit_code = "running"
    /\ BacktestIdle /\ SummaryIdle

\* indicator(): add the columns, drop the rows with a NaN, write the table.
Indicator ==
    /\ exit_code = "running"
    /\ IF Refused(indicator_type, period)
       THEN /\ exit_code' = "ValueError"
            /\ UNCHANGED <<output, written>>
       ELSE /\ output' = DropNa(Computed(indicator_type, df, period))
            /\ written' = TRUE
            /\ exit_code' = "ok"
    /\ UNCHANGED <<indicator_type, period, df, backtestVars, summaryVars>>

NextIndicator == Indicator

SpecIndicator == IndicatorInit /\ [][NextIndicator]_vars

---------------------------------------------------------------------------
\* The `backtest` command: cerebro.run() of MovingAverageCrossover over the
\* data feed, one bar per step.  The two moving averages of a bar are inputs
\* of the step (any pair of values), as are its Open and Close.

short_period == 50
long_period == 200
startingcash == 100000
\* The size of self.buy() and self.sell(): the default sizer's fixed stake.
stake == 1

\* Open and Close of a bar; one of them is above the starting cash.
Prices == {60000, 120000}
\* The values a moving average takes on a bar.
MAs == {80000, 90000}

Max(a, b) == IF a > b THEN a ELSE b

\* The first bar on which next() runs: CrossOver reads the NonZeroDifference
\* of the bar before, which needs both moving averages.
MinPeriod == Max(short_period, long_period) + 1
MaxBars == MinPeriod + MaxLive - 1

NoOrder == [size |-> 0, created |-> 0]

\* NonZeroDifference without its memory: the plain difference of the bar.
NonZeroDifferencePlain(prev, s, l, seed) == QSub(s, l)

\* NonZeroDifference(short_ma, long_ma) of a bar: the difference, or, when it
\* is zero, the last value of the line; the first value is the difference.
NonZeroDifference(prev, s, l, seed) ==
    LET d == QSub(s, l)
    IN  IF seed \/ d # Num(0) THEN d ELSE prev

\* CrossOver(short_ma, long_ma) of a bar, prev_nzd the NonZeroDifference of
\* the bar before: upcross - downcross, upcross = prev_nzd < 0 and short > long,
\* downcross = prev_nzd > 0 and short < long.
CrossOver(prev_nzd, s, l) ==
    LET upcross == IF QLt(prev_nzd, Num(0)) /\ QGt(s, l) THEN 1 ELSE 0
        downcross == IF QGt(prev_nzd, Num(0)) /\ QLt(s, l) THEN 1 ELSE 0
    IN  Num(upcross - downcross)

\* next() that also buys on a down-cross while flat (a reversed test).
StrategyNextSloppy(pos, cross) ==
    IF pos.size = 0
    THEN (IF cross # Num(0) THEN stake ELSE 0)
    ELSE IF QLt(cross, Num(0)) THEN -stake ELSE 0

\* MovingAverageCrossover.next(): the signed size of the order it submits
\* (0: none).  self.position is false when the broker's position size is 0.
StrategyNext(pos, cross) ==
    IF pos.size = 0
    THEN (IF QGt(cross, Num(0)) THEN stake ELSE 0)
    ELSE IF QLt(cross, Num(0)) THEN -stake ELSE 0

\* A fill at the close of the bar that issued the order.
FillPriceAtSignalClose(o, op) == o.created

\* The price a market order is filled at: the Open of the bar after the one
\* that issued it.
FillPrice(o, op) == op

\* The part of an order of signed size s that closes the position of size p,
\* and the part that opens.
Closed(p, s) ==
    IF p > 0 /\ s < 0 THEN (IF p + s >= 0 THEN s ELSE -p)
    ELSE IF p < 0 /\ s > 0 THEN (IF p + s <= 0 THEN s ELSE -p)
    ELSE 0

Opened(p, s) == s - Closed(p, s)

\* Position.update that books a closing order as an opening one.
PositionUpdateNoClose(pos, s, price) ==
    [size |-> pos.size + Abs(s), price |-> price]

\* Position.update: the position after an execution of signed size s at price
\* (the price of a position that grows is not needed: next() never adds).
PositionUpdate(pos, s, price) ==
    LET n == pos.size + s
    IN  [size |-> n,
         price |-> IF n = 0 THEN 0
                   ELSE IF Closed(pos.size, s) = 0 /\ pos.size # 0 THEN pos.price
                   ELSE price]

\* The cash after an order of signed size s is executed at price against the
\* position pos: a closed long returns size * price, an opened part costs
\* |size| * price (no commission, no leverage).
CashAfter(c, pos, s, price) ==
    c + Abs(Closed(pos.size, s)) * price - Abs(Opened(pos.size, s)) * price

\* The broker's turn on a bar with Open op: the pending order o is checked
\* against the cash at the price it was created at, then filled at FillPrice;
\* an order the cash does not cover is rejected (Margin).
BrokerNext(o, c, pos, op) ==
    IF o.size = 0
    THEN [cash |-> c, position |-> pos, notified |-> "none", price |-> 0]
    ELSE IF \/ CashAfter(c, pos, o.size, o.created) < 0
            \/ CashAfter(c, pos, o.size, FillPrice(o, op)) < 0
    THEN [cash |-> c, position |-> pos, notified |-> "Margin", price |-> 0]
    ELSE [cash |-> CashAfter(c, pos, o.size, FillPrice(o, op)),
          position |-> PositionUpdate(pos, o.size, FillPrice(o, op)),
          notified |-> "Completed", price |-> FillPrice(o, op)]

Side(o) == IF o.size > 0 THEN "buy" ELSE "sell"

\* The state when cerebro.run() starts: the cash set, no bar seen.
BacktestInit ==
    /\ bar = 0 /\ open = 0 /\ close = 0
    /\ short_ma = NaN /\ long_ma = NaN /\ nzd = NaN /\ crossover = NaN
    /\ diffs = <<>>
    /\ cash = startingcash /\ position = [size |-> 0, price |-> 0]
    /\ order = NoOrder /\ notified = "none" /\ value = startingcash
    /\ issued = <<>> /\ executed = <<>> /\ done = FALSE
    /\ IndicatorIdle /\ SummaryIdle

\* The data feed and the indicator lines move to the next bar.
Advance ==
    /\ bar' = bar + 1
    /\ open' \in Prices /\ close' \in Prices
    /\ short_ma' \in (IF bar' >= short_period THEN {Num(m) : m \in MAs} ELSE {NaN})
    /\ long_ma' \in (IF bar' >= long_period THEN {Num(m) : m \in MAs} ELSE {NaN})
    /\ nzd' = IF bar' < Max(short_period, long_period) THEN NaN
              ELSE NonZeroDifference(nzd, short_ma', long_ma',
                                     bar' = Max(short_period, long_period))
    /\ diffs' = IF bar' < Max(short_period, long_period) THEN diffs
                ELSE Append(diffs, QSub(short_ma', long_ma')[1])
    /\ crossover' = IF bar' < MinPeriod THEN NaN
                    ELSE CrossOver(nzd, short_ma', long_ma')

\* A bar of the warm-up: the broker has nothing to do, prenext() does nothing.
Prenext ==
    /\ ~done /\ bar + 1 < MinPeriod
    /\ Advance
    /\ value' = cash + position.size * close'
    /\ UNCHANGED <<cash, position, order, notified, issued, executed, done>>
    /\ UNCHANGED <<indicatorVars, summaryVars>>

\* A bar past the warm-up: the broker processes the order of the bar before,
\* then next() runs and may submit an order.
NextBar ==
    /\ ~done /\ bar + 1 >= MinPeriod /\ bar + 1 <= MaxBars
    /\ Advance
    /\ LET b == BrokerNext(order, cash, position, open')
           size == StrategyNext(b.position, crossover')
       IN  /\ cash' = b.cash
           /\ position' = b.position
           /\ notified' = b.notified
           /\ executed' = IF b.notified = "Completed"
                          THEN Append(executed, [side |-> Side(order),
                                                 price |-> b.price,
                                                 bar |-> bar'])
                          ELSE executed
           /\ value' = b.cash + b.position.size * close'
           /\ order' = IF size = 0 THEN NoOrder
                       ELSE [size |-> size, created |-> close']
           /\ issued' = IF size = 0 THEN issued
                        ELSE Append(issued, [side |-> Side(order'), bar |-> bar'])
    /\ UNCHANGED done
    /\ UNCHANGED <<indicatorVars, summaryVars>>

\* The feed is exhausted: run() returns; a pending order stays unprocessed.
Finish ==
    /\ ~done
    /\ done' = TRUE
    /\ UNCHANGED <<bar, open, close, short_ma, long_ma, nzd, diffs, crossover,
                   cash, position, order, notified, value, issued, executed>>
    /\ UNCHANGED <<indicatorVars, summaryVars>>

NextBacktest == Prenext \/ NextBar \/ Finish

SpecBacktest == BacktestInit /\ [][NextBacktest]_vars

---------------------------------------------------------------------------
\* The summary record of `backtest`.  The two analyses are inputs: a dict
\* each, whose keys may be missing and whose values may be None.

None == [kind |-> "None", val |-> 0]
Null == [kind |-> "null", val |-> 0]
Number(n) == [kind |-> "number", val |-> n]

\* dict.get with the default taken to be 0.
DictGetZero(d, k, default) == IF k \in DOMAIN d THEN d[k] ELSE Number(0)

\* d.get(k, default)
DictGet(d, k, default) == IF k \in DOMAIN d THEN d[k] ELSE default

\* json.dump of a value: None is written as null.
ToJson(v) == IF v = None THEN Null ELSE v

AnalysisValues == {None, Number(0), Number(5)}

\* The dicts over a subset of the keys.
Dicts(keys) == UNION {[ks -> AnalysisValues] : ks \in SUBSET keys}

\* The state when run() has returned and the analyses are read.
SummaryInit ==
    /\ sharpe \in Dicts({"sharperatio"})
    /\ drawdown \in Dicts({"len", "drawdown", "max"})
    /\ result_summary = <<>> /\ results_json = <<>> /\ saved = FALSE
    /\ IndicatorIdle /\ BacktestIdle

\* backtest(): build result_summary and dump it.
SaveResults ==
    /\ ~saved
    /\ result_summary' =
            [f \in {"Sharpe Ratio", "Max Drawdown", "Drawdown Period"} |->
                CASE f = "Sharpe Ratio" -> DictGet(sharpe, "sharperatio", None)
                  [] f = "Max Drawdown" -> DictGet(drawdown, "max", None)
                  [] f = "Drawdown Period" -> DictGet(drawdown, "len", None)]
    /\ results_json' = [f \in DOMAIN result_summary' |-> ToJson(result_summary'[f])]
    /\ saved' = TRUE
    /\ UNCHANGED <<sharpe, drawdown, indicatorVars, backtestVars>>

NextSummary == SaveResults

SpecSummary == SummaryInit /\ [][NextSummary]_vars

---------------------------------------------------------------------------
\* Properties of the `indicator` command (checked under SpecIndicator).

\* The input table has no empty cell.
Complete(t) == \A i \in 1..Len(t) : \A c \in DOMAIN t[i] \ {"Date"} : ~IsNaN(t[i][c])

\* The close of input row i, an integer.
CloseAt(i) == df[i].Close[1]

RECURSIVE SumCloses(_, _)
SumCloses(a, b) == IF a > b THEN 0 ELSE CloseAt(a) + SumCloses(a + 1, b)

\* The columns the command adds.
NewColumns(type) ==
    CASE type = "SMA" -> {"SMA"}
      [] type = "EMA" -> {"EMA"}
      [] type = "RSI" -> {"RSI"}
      [] type = "MACD" -> {"MACD", "Signal"}

\* C3: for SMA with period p >= 1 over a table of len >= p bars, the output
\* has exactly len-p+1 rows, those of bars p..len in order, and the SMA of
\* bar i is the arithmetic mean of the closes of bars i-p+1..i.
C3_SmaWindowMean ==
    (/\ exit_code = "ok" /\ indicator_type = "SMA"
     /\ period >= 1 /\ Len(df) >= period /\ Complete(df))
    => /\ Len(output) = Len(df) - period + 1
       /\ \A k \in 1..Len(output) :
            LET i == period + k - 1
                v == output[k].SMA
            IN  /\ output[k].Date = i
                /\ v[2] > 0
                /\ v[1] * period = v[2] * SumCloses(i - period + 1, i)

C3_Witness ==
    /\ exit_code = "ok" /\ indicator_type = "SMA" /\ period = 2
    /\ Len(df) = 3 /\ Complete(df) /\ CloseAt(1) # CloseAt(2)
    /\ Len(output) = 2 /\ output[1].SMA = <<3, 2>>

\* C4: the output holds, in date order and with their input values, exactly
\* the input rows on which every added column is defined; no other column
\* makes a row disappear.
C4_PruneOnlyNewColumns ==
    (exit_code = "ok") =>
        LET t == Computed(indicator_type, df, period)
            Defined(r) == \A c \in NewColumns(indicator_type) : ~IsNaN(r[c])
        IN  output = SelectSeq(t, Defined)

\* C6: SMA with period <= 0 or period > len fails and writes no output.
C6_SmaRejectsBadPeriod ==
    (/\ indicator_type = "SMA" /\ exit_code # "running"
     /\ (period <= 0 \/ period > Len(df)))
    => exit_code # "ok" /\ ~written

\* C7: for EMA with span >= 1 over a non-empty table, every bar has a row,
\* EMA of the first bar is its close, and with alpha = 2/(span+1) each later
\* EMA is alpha*close + (1-alpha)*(previous EMA).
C7_EmaRecurrence ==
    (/\ exit_code = "ok" /\ indicator_type = "EMA"
     /\ period >= 1 /\ Len(df) >= 1 /\ Complete(df))
    => /\ Len(output) = Len(df)
       /\ \A i \in 1..Len(output) : output[i].Date = i /\ output[i].EMA[2] > 0
       /\ output[1].EMA = Num(CloseAt(1))
       /\ \A i \in 2..Len(output) :
            LET e == output[i].EMA
                pe == output[i - 1].EMA
            IN  \* e = (2*close + (span-1)*pe) / (span+1)
                e[1] * (period + 1) * pe[2]
                    = e[2] * (2 * CloseAt(i) * pe[2] + (period - 1) * pe[1])

C7_Witness ==
    /\ exit_code = "ok" /\ indicator_type = "EMA" /\ period = 3
    /\ Len(df) = 3 /\ Complete(df)
    /\ CloseAt(1) = 1 /\ CloseAt(2) = 2 /\ CloseAt(3) = 2
    /\ Len(output) = 3 /\ output[3].EMA = <<7, 4>>

\* The gain and the loss of bar j: the rise and the fall of the close since
\* the bar before, both 0 on the first bar.
GainAt(j) == IF j > 1 /\ CloseAt(j) > CloseAt(j - 1) THEN CloseAt(j) - CloseAt(j - 1) ELSE 0
LossAt(j) == IF j > 1 /\ CloseAt(j) < CloseAt(j - 1) THEN CloseAt(j - 1) - CloseAt(j) ELSE 0

RECURSIVE SumGain(_, _)
SumGain(a, b) == IF a > b THEN 0 ELSE GainAt(a) + SumGain(a + 1, b)

RECURSIVE SumLoss(_, _)
SumLoss(a, b) == IF a > b THEN 0 ELSE LossAt(a) + SumLoss(a + 1, b)

\* Bar i has a full window whose average loss is 0 and average gain is > 0.
ZeroLoss(i) ==
    /\ period >= 1 /\ i >= period
    /\ SumLoss(i - period + 1, i) = 0
    /\ SumGain(i - period + 1, i) > 0

\* C8: every RSI written is within [0, 100], and a bar whose average loss is
\* 0 and whose average gain is > 0 is written with RSI = 100.
C8_RsiRange ==
    (exit_code = "ok" /\ indicator_type = "RSI")
    => /\ \A k \in 1..Len(output) :
            LET v == output[k].RSI
            IN  v[2] > 0 /\ 0 <= v[1] /\ v[1] <= 100 * v[2]
       /\ \A i \in 1..Len(df) :
            (ZeroLoss(i) /\ ~IsNaN(df[i].Other))
            => \E k \in 1..Len(output) :
                    output[k].Date = i /\ output[k].RSI = Num(100)

C8_Witness ==
    /\ exit_code = "ok" /\ indicator_type = "RSI" /\ period = 2
    /\ Len(df) = 3 /\ Complete(df) /\ ZeroLoss(2) /\ ~ZeroLoss(3)
    /\ Len(output) = 2 /\ output[1].RSI = Num(100) /\ output[2].RSI = Num(50)

---------------------------------------------------------------------------
\* Properties of the `backtest` command (checked under SpecBacktest).

Last(q) == q[Len(q)]

\* The simulator is Flat when the last completed order, if any, is a sell,
\* and Long when it is a buy.
Flat == executed = <<>> \/ Last(executed).side = "sell"
Long == ~Flat

BuyOf(price) == [size |-> 1, created |-> price]
SellOf(price) == [size |-> -1, created |-> price]

\* What one bar past the warm-up does, in the claim's terms.
C1_Step ==
    (bar' = bar + 1 /\ bar' >= MinPeriod) =>
        /\ order = NoOrder => cash' = cash /\ position' = position
        /\ order.size > 0 =>
             IF cash >= order.created /\ cash >= open'
             THEN /\ cash' = cash - open'
                  /\ position' = [size |-> 1, price |-> open']
                  /\ Last(executed') = [side |-> "buy", price |-> open', bar |-> bar']
             ELSE cash' = cash /\ position' = position /\ executed' = executed
        /\ order.size < 0 =>
             /\ cash' = cash + open'
             /\ position'.size = 0
             /\ Last(executed') = [side |-> "sell", price |-> open', bar |-> bar']
        /\ order' = IF position'.size = 0 /\ crossover' = Num(1) THEN BuyOf(close')
                    ELSE IF position'.size # 0 /\ crossover' = Num(-1) THEN SellOf(close')
                    ELSE NoOrder

\* A run with one buy signal and one later sell signal, both filled, ends
\* with the starting cash less the buy's fill plus the sell's fill, each fill
\* made on the bar after its signal.
C1_RoundTrip ==
    (/\ done /\ Len(issued) = 2 /\ Len(executed) = 2)
    => /\ executed[1].bar = issued[1].bar + 1
       /\ executed[2].bar = issued[2].bar + 1
       /\ cash = startingcash - executed[1].price + executed[2].price

\* C1 (as amended): a buy signal while Flat submits a market buy of 1 unit,
\* filled at the next bar's Open if the cash covers the signal bar's Close and
\* that Open (cash falls by the Open, holdings become 1 unit), otherwise
\* rejected; a sell signal while Long sells the 1 unit at the next bar's Open
\* (cash rises by the Open, holdings become 0).
C1_FixedStakeAtNextOpen == [][C1_Step]_vars /\ []C1_RoundTrip

C1_Witness ==
    /\ done /\ Len(issued) = 2 /\ Len(executed) = 2
    /\ executed[1].price = 60000 /\ executed[2].price = 120000
    /\ cash = 160000 /\ position.size = 0

\* C1 (as claimed): a buy signal while Flat buys with all the cash at the
\* bar's Close (cash = 0, holdings = cash before / Close); a sell signal while
\* Long sells all holdings at the bar's Close (cash = holdings * Close).
C1_AllInAtClose ==
    [][(bar' = bar + 1 /\ bar' >= MinPeriod /\ order = NoOrder) =>
          /\ (position.size = 0 /\ crossover' = Num(1))
                => cash' = 0 /\ position'.size * close' = cash
          /\ (position.size > 0 /\ crossover' = Num(-1))
                => cash' = position.size * close' /\ position'.size = 0]_vars

\* The decision rule of next(), read after a bar: order is what next() has
\* just issued, position what it saw.
C2_Decision ==
    /\ order.size > 0 => position.size = 0 /\ crossover = Num(1)
    /\ order.size < 0 => position.size > 0 /\ crossover = Num(-1)
    /\ (position.size = 0 /\ ~QGt(crossover, Num(0))) => order = NoOrder
    /\ (position.size > 0 /\ ~QLt(crossover, Num(0))) => order = NoOrder
    /\ position.size >= 0

Alternates(q) ==
    \A i \in 1..Len(q) : q[i].side = IF i % 2 = 1 THEN "buy" ELSE "sell"

\* C2 (as amended): a buy is issued only when Flat with crossover > 0, a sell
\* only when Long with crossover < 0, no order otherwise, and the position
\* changes only through an issued order; the position is never short, and the
\* completed buys and sells alternate beginning with a buy.
C2_DecisionRule ==
    /\ [](C2_Decision /\ Alternates(executed))
    /\ [][order = NoOrder => position' = position]_vars

C2_Witness ==
    /\ Len(issued) = 3 /\ Len(executed) = 1
    /\ issued[1].side = "buy" /\ issued[2].side = "buy" /\ issued[3].side = "sell"
    /\ notified = "none" /\ order.size < 0

\* C2 (as claimed): the same, with the issued buys and sells alternating.
C2_IssuedAlternate ==
    /\ [](C2_Decision /\ Alternates(issued))
    /\ [][order = NoOrder => position' = position]_vars

\* C5: while Flat the holdings are 0 units (the broker's value is its cash),
\* and right after a buy is completed the holdings are more than 0 units.
C5_FlatHoldsNothing ==
    /\ Flat => position.size = 0 /\ value = cash
    /\ (notified = "Completed" /\ Long) => position.size > 0

C5_Witness ==
    /\ notified = "Completed" /\ Len(executed) = 3 /\ Long
    /\ position.size = 1 /\ value # cash

RECURSIVE LastNonZero(_)
LastNonZero(q) ==
    IF q = <<>> THEN 0
    ELSE IF Last(q) # 0 THEN Last(q)
    ELSE LastNonZero(SubSeq(q, 1, Len(q) - 1))

\* Before next() first runs there is no signal and no order.
C9_NoSignalInWarmup ==
    bar < MinPeriod =>
        /\ crossover = NaN /\ order = NoOrder
        /\ issued = <<>> /\ position.size = 0

\* C9 (as amended): on a bar after the first one that has both averages, the
\* signal is positive exactly when short - long is positive on the bar and its
\* most recent non-zero value on the bars before is negative, negative in
\* the mirror case, and zero otherwise; on the bars up to and including the
\* first one that has both averages (the first bar of the feed among them)
\* there is no signal and no order.
C9_CrossOverLastNonZero ==
    /\ C9_NoSignalInWarmup
    /\ bar >= MinPeriod =>
        LET d == Last(diffs)
            before == LastNonZero(SubSeq(diffs, 1, Len(diffs) - 1))
        IN  crossover = Num(IF before < 0 /\ d > 0 THEN 1
                            ELSE IF before > 0 /\ d < 0 THEN -1
                            ELSE 0)

C9_Witness ==
    /\ Len(diffs) = 3 /\ diffs[1] < 0 /\ diffs[2] = 0 /\ diffs[3] > 0
    /\ crossover = Num(1) /\ order.size > 0

\* C9 (as claimed): on a bar after the first one that has both averages, the
\* signal is positive exactly when short - long was <= 0 on the bar before
\* and is > 0 on the bar, negative in the mirror case, and zero otherwise; on
\* the first bar there is no signal and no order.
C9_CrossOverPreviousBar ==
    /\ bar = 1 => ~QGt(crossover, Num(0)) /\ ~QLt(crossover, Num(0)) /\ order = NoOrder
    /\ bar >= MinPeriod =>
        LET d == Last(diffs)
            before == diffs[Len(diffs) - 1]
        IN  crossover = Num(IF before <= 0 /\ d > 0 THEN 1
                            ELSE IF before >= 0 /\ d < 0 THEN -1
                            ELSE 0)

---------------------------------------------------------------------------
\* Properties of the summary record (checked under SpecSummary).

\* What the file holds for key k of analysis d: the value reported, null when
\* none was.
Reported(d, k) == IF k \in DOMAIN d /\ d[k] # None THEN d[k] ELSE Null

\* C10: the file holds exactly the three fields, each with the value its
\* analyzer reported, and null for a statistic that was not reported.
C10_SummaryRecord ==
    saved =>
        /\ DOMAIN results_json = {"Sharpe Ratio", "Max Drawdown", "Drawdown Period"}
        /\ results_json["Sharpe Ratio"] = Reported(sharpe, "sharperatio")
        /\ results_json["Max Drawdown"] = Reported(drawdown, "max")
        /\ results_json["Drawdown Period"] = Reported(drawdown, "len")

C10_Witness ==
    /\ saved
    /\ "sharperatio" \in DOMAIN sharpe /\ sharpe["sharperatio"] = None
    /\ "max" \notin DOMAIN drawdown
    /\ "len" \in DOMAIN drawdown /\ drawdown["len"] = Number(5)
    /\ results_json["Sharpe Ratio"] = Null /\ results_json["Max Drawdown"] = Null
    /\ results_json["Drawdown Period"] = Number(5)

===========================================================================
